---- MODULE Spec2Model ----
(***************************************************************************)
(* Model of server/uptime-kuma-server.js: the UptimeKumaServer singleton,  *)
(* its start-up sequence (initAfterDatabaseReady), the recurring           *)
(* generateMaintenanceTimeslots pass, stop(), and getClientIP.             *)
(*                                                                         *)
(* Every `await` of an async method is a suspension point; one action      *)
(* models the code that runs from one suspension point to the next.        *)
(***************************************************************************)
EXTENDS Integers, Sequences, FiniteSets, TLC

\* ------------------------------------------------------------------ bounds
MaxNow == 1
MaxTimerPasses == 2
MaxFaults == 1
MaxStops == 2

\* the maintenance windows of the database
Maintenances == {1, 2}

\* pass 0 is the pass awaited by initAfterDatabaseReady, the others are
\* started by the interval timer
Passes == 0..MaxTimerPasses

VARIABLES
    now,            \* DATETIME('now') of the database
    timeslots,      \* table maintenance_timeslot: sequence of rows, index = id
    rolled,         \* <<pass, id>>: generateTimeslot completed for row id in pass
    pc,             \* per pass: the await generateMaintenanceTimeslots is suspended at
    list,           \* per pass: the result of R.find (row ids)
    idx,            \* per pass: position of the for-of loop in list
    born,           \* <<pass, id>>: row id was inserted, already due, while pass iterated
    initPc,         \* the await initAfterDatabaseReady is suspended at
    initErr,        \* the step whose error rejected initAfterDatabaseReady
    dnsFresh,       \* CacheableDnsHttpAgent.update() has completed
    envTZ,          \* process.env.TZ / dayjs default zone applied by init
    generateMaintenanceTimeslotsInterval,   \* the field of line 49
    timers,         \* handles of the armed interval timers of the runtime
    faults,         \* number of failed I/O calls so far
    stopCalls,      \* number of stop() calls so far
    stoppedAfterInit, \* a stop() ran after initAfterDatabaseReady returned
    stopSeen,       \* some pass was in flight when a stop() ran
    stopDuringInit, \* a stop() ran while initAfterDatabaseReady was suspended
    instance,       \* static UptimeKumaServer.instance
    constructed,    \* number of completed constructor runs
    getLog,         \* the getInstance calls so far: argument and outcome
    procEnv,        \* what the constructor reads: dist/index.html, NODE_ENV
    conn,           \* socket.client.conn of a getClientIP call
    trustProxy,     \* Settings.get("trustProxy")
    clientIP,       \* what getClientIP(socket) returned
    clientIPNoFwd,  \* the same for the connection without forwarding headers
    serverTimezone, \* the stored setting "serverTimezone"
    dayjsDefault,   \* the default zone of dayjs.tz
    tzPc,           \* the await setTimezone is suspended at
    tzArg,          \* the argument of the current or last setTimezone call
    tzCalls,        \* number of setTimezone calls so far
    getPc,          \* the await getTimezone is suspended at
    timezone,       \* getTimezone's local: what Settings.get resolved with
    getAfter,       \* the setTimezone argument the getTimezone call follows
    tzResult,       \* what getTimezone returned
    beans,          \* table monitor (or maintenance): id -> row
    sendKind,       \* the event of the send...List call
    sendUser,       \* socket.userID of the call
    sendPc,         \* the await the call is suspended at
    sendErr,        \* the awaited call that rejected
    sendRows,       \* monitorList / maintenanceList: the result of R.find
    sendIdx,        \* position of the for-of loop
    result,         \* the keys set on the result object so far
    emitted,        \* what io.to(...).emit sent: channel, event, payload
    returned,       \* what the call returned
    history         \* the history variables born and stopDuringInit are recorded

vars == <<now, timeslots, rolled, pc, list, idx, born, initPc, initErr, dnsFresh,
          envTZ, generateMaintenanceTimeslotsInterval, timers, faults,
          stopCalls, stoppedAfterInit, stopSeen, stopDuringInit, instance, constructed, getLog, procEnv,
          conn, trustProxy, clientIP, clientIPNoFwd,
          serverTimezone, dayjsDefault, tzPc, tzArg, tzCalls, getPc, timezone,
          getAfter, tzResult, beans, sendKind, sendUser, sendPc, sendErr,
          sendRows, sendIdx, result, emitted, returned, history>>

schedVars == <<timeslots, rolled, pc, list, idx, born>>
initVars == <<initPc, initErr, dnsFresh, envTZ>>
timerVars == <<generateMaintenanceTimeslotsInterval, timers>>
stopVars == <<stopCalls, stoppedAfterInit, stopSeen, stopDuringInit>>
instVars == <<instance, constructed, getLog, procEnv>>
ipVars == <<conn, trustProxy, clientIP, clientIPNoFwd>>
tzTaskVars == <<serverTimezone, tzPc, tzArg, tzCalls, getPc, timezone, getAfter, tzResult>>
tzVars == <<tzTaskVars, dayjsDefault>>
sendVars == <<sendPc, sendErr, sendRows, sendIdx, result, emitted, returned>>
listVars == <<beans, sendKind, sendUser, sendVars>>
coordVars == <<now, schedVars, initVars, timerVars, faults, stopVars>>

Undefined == "undefined"
Handle == "interval#1"

\* ------------------------------------------------------------ the database
Row(m, start) ==
    [maintenance_id |-> m, start_date |-> start, end_date |-> start + 1,
     generated_next |-> FALSE]

Ids == 1..Len(timeslots)

\* R.find("maintenance_timeslot",
\*        " generated_next = 0 AND start_date <= DATETIME('now') ")
IsDue_NoFlag(row) == row.start_date <= now

IsDue(row) == ~row.generated_next /\ row.start_date <= now

RECURSIVE FindFrom(_)
FindFrom(i) ==
    IF i > Len(timeslots) THEN <<>>
    ELSE (IF IsDue(timeslots[i]) THEN <<i>> ELSE <<>>) \o FindFrom(i + 1)

FindDue == FindFrom(1)

\* the rows that are the slot following row id of the same window
Successors(id) ==
    {j \in Ids : /\ timeslots[j].maintenance_id = timeslots[id].maintenance_id
                 /\ timeslots[j].start_date = timeslots[id].end_date}

\* MaintenanceTimeslot.generateTimeslot(maintenance, end_date, false):
\* materializes the next slot of the window, once per logical next slot
generateTimeslot(id) ==
    IF Successors(id) = {}
    THEN Append(timeslots, Row(timeslots[id].maintenance_id, timeslots[id].end_date))
    ELSE timeslots

\* ---------------------------------------------------------- client address
\* header values and addresses are strings (sequences of characters);
\* Absent is a header or remoteAddress that is undefined
MaxLen == 2
MaxXff == 3
AddrChars == {"1", ":"}
XffChars == {"1", ":", ",", " "}
Absent == <<"undefined">>

Strs(chars, n) == UNION {[1..k -> chars] : k \in 0..n}
HeaderValues == Strs(AddrChars, MaxLen) \cup {Absent}
XffValues == Strs(XffChars, MaxXff) \cup {Absent}

Conns ==
    [cfConnectingIp : HeaderValues, remoteAddress : HeaderValues,
     xForwardedFor : XffValues, xRealIp : HeaderValues]

\* JavaScript truthiness of a string-or-undefined value
Truthy(v) == v # Absent /\ v # <<>>

Positions(s, c) == {i \in 1..Len(s) : s[i] = c}
Max(S) == CHOOSE i \in S : \A j \in S : j <= i
Min(S) == CHOOSE i \in S : \A j \in S : i <= j

\* s.replace(/^.*:/, ""): the greedy match ends at the last colon
StripToColon(s) ==
    IF Positions(s, ":") = {} THEN s
    ELSE SubSeq(s, Max(Positions(s, ":")) + 1, Len(s))

\* s.split(",")[0]
FirstEntry(s) ==
    IF Positions(s, ",") = {} THEN s
    ELSE SubSeq(s, 1, Min(Positions(s, ",")) - 1)

\* s.trim()
Trim(s) ==
    LET NonSpace == {i \in 1..Len(s) : s[i] # " "}
    IN  IF NonSpace = {} THEN <<>>
        ELSE SubSeq(s, Min(NonSpace), Max(NonSpace))

\* variant: the forwarding headers are used whatever trustProxy is
getClientIP_AlwaysTrust(c, trust) ==
    LET first == IF Truthy(c.cfConnectingIp) THEN c.cfConnectingIp
                 ELSE c.remoteAddress
        base == IF first = Absent THEN <<>> ELSE first
        entry == IF c.xForwardedFor # Absent THEN Trim(FirstEntry(c.xForwardedFor))
                 ELSE Absent
    IN  IF Truthy(entry) THEN entry
        ELSE IF Truthy(c.xRealIp) THEN c.xRealIp
        ELSE StripToColon(base)

\* variant: x-real-ip is preferred to x-forwarded-for
getClientIP_RealIpFirst(c, trust) ==
    LET first == IF Truthy(c.cfConnectingIp) THEN c.cfConnectingIp
                 ELSE c.remoteAddress
        base == IF first = Absent THEN <<>> ELSE first
        entry == IF c.xForwardedFor # Absent THEN Trim(FirstEntry(c.xForwardedFor))
                 ELSE Absent
    IN  IF trust
        THEN IF Truthy(c.xRealIp) THEN c.xRealIp
             ELSE IF Truthy(entry) THEN entry
             ELSE StripToColon(base)
        ELSE StripToColon(base)

\* lines 188-205
getClientIP(c, trust) ==
    LET first == IF Truthy(c.cfConnectingIp) THEN c.cfConnectingIp
                 ELSE c.remoteAddress
        base == IF first = Absent THEN <<>> ELSE first
        forwardedFor == c.xForwardedFor
        entry == IF forwardedFor # Absent THEN Trim(FirstEntry(forwardedFor))
                 ELSE Absent
    IN  IF trust
        THEN IF Truthy(entry) THEN entry
             ELSE IF Truthy(c.xRealIp) THEN c.xRealIp
             ELSE StripToColon(base)
        ELSE StripToColon(base)

WithoutForwarding(c) ==
    [c EXCEPT !.xForwardedFor = Absent, !.xRealIp = Absent]

NoConn == [cfConnectingIp |-> Absent, remoteAddress |-> Absent,
           xForwardedFor |-> Absent, xRealIp |-> Absent]

InitIPIdle ==
    /\ conn = NoConn
    /\ trustProxy = FALSE
    /\ clientIP = Absent
    /\ clientIPNoFwd = Absent

InitIP ==
    /\ conn \in Conns
    /\ trustProxy \in BOOLEAN
    /\ clientIP = Absent
    /\ clientIPNoFwd = Absent

\* one call for the connection, one for the same connection whose
\* x-forwarded-for and x-real-ip headers are removed
GetClientIP ==
    /\ clientIP = Absent
    /\ clientIP' = getClientIP(conn, trustProxy)
    /\ clientIPNoFwd' = getClientIP(WithoutForwarding(conn), trustProxy)
    /\ UNCHANGED <<conn, trustProxy, coordVars, instVars, tzVars, listVars, history>>

\* ---------------------------------------------------------------- timezone
MaxTzCalls == 2
Zones == {"Europe/London", "Asia/Tokyo", ""}
Guess == "Host/Zone"
Idle == "idle"
None == "none"

\* JavaScript truthiness of a setting or environment value
TruthyTZ(v) == v # Undefined /\ v # ""

InitTZIdle ==
    /\ serverTimezone = Undefined
    /\ dayjsDefault = Undefined
    /\ tzPc = Idle
    /\ tzArg = None
    /\ tzCalls = 0
    /\ getPc = Idle
    /\ timezone = Undefined
    /\ getAfter = None
    /\ tzResult = None

\* any stored setting and any environment the process may run with
InitTZ ==
    /\ serverTimezone \in Zones \cup {Undefined}
    /\ envTZ \in Zones \cup {Undefined}
    /\ dayjsDefault \in {envTZ, Guess}
    /\ tzPc = Idle
    /\ tzArg = None
    /\ tzCalls = 0
    /\ getPc = Idle
    /\ timezone = Undefined
    /\ getAfter = None
    /\ tzResult = None

tzFrame == <<now, schedVars, initPc, initErr, dnsFresh, timerVars, faults,
             stopVars, instVars, ipVars, listVars, history>>

\* setTimezone(tz) is called by a caller that awaits each call: it runs up
\* to the await of Settings.set (line 223)
SetTimezoneCall(tz) ==
    /\ tzPc \in {Idle, "returned", "rejected"}
    /\ tzCalls < MaxTzCalls
    /\ tzCalls' = tzCalls + 1
    /\ tzPc' = "set"
    /\ tzArg' = tz
    /\ getAfter' = IF getPc \in {"get", "got"} THEN None ELSE getAfter
    /\ UNCHANGED <<serverTimezone, envTZ, dayjsDefault, getPc, timezone, tzResult, tzFrame>>

\* Settings.set writes the setting, or rejects and so does setTimezone
SettingsSet ==
    /\ tzPc = "set"
    /\ \/ /\ serverTimezone' = tzArg
          /\ tzPc' = "stored"
       \/ /\ tzPc' = "rejected"
          /\ UNCHANGED serverTimezone
    /\ UNCHANGED <<envTZ, dayjsDefault, tzArg, tzCalls, getPc, timezone, getAfter,
                   tzResult, tzFrame>>

\* variant: the environment variable is not updated
SetTimezoneResume_SkipEnv ==
    /\ tzPc = "stored"
    /\ dayjsDefault' = tzArg
    /\ tzPc' = "returned"
    /\ UNCHANGED <<envTZ, serverTimezone, tzArg, tzCalls, getPc, timezone, getAfter,
                   tzResult, tzFrame>>

\* line 223 resumes: lines 224-225, then setTimezone returns
SetTimezoneResume ==
    /\ tzPc = "stored"
    /\ envTZ' = tzArg
    /\ dayjsDefault' = tzArg
    /\ tzPc' = "returned"
    /\ UNCHANGED <<serverTimezone, tzArg, tzCalls, getPc, timezone, getAfter,
                   tzResult, tzFrame>>

\* getTimezone() is called: it runs up to the await of Settings.get (line 208)
GetTimezoneCall ==
    /\ getPc \in {Idle, "returned", "rejected"}
    /\ getPc' = "get"
    /\ getAfter' = IF tzPc = "returned" THEN tzArg ELSE None
    /\ UNCHANGED <<serverTimezone, envTZ, dayjsDefault, tzPc, tzArg, tzCalls,
                   timezone, tzResult, tzFrame>>

\* Settings.get reads the setting, or rejects and so does getTimezone
SettingsGet ==
    /\ getPc = "get"
    /\ \/ /\ timezone' = serverTimezone
          /\ getPc' = "got"
       \/ /\ getPc' = "rejected"
          /\ UNCHANGED timezone
    /\ UNCHANGED <<serverTimezone, envTZ, dayjsDefault, tzPc, tzArg, tzCalls,
                   getAfter, tzResult, tzFrame>>

\* line 208 resumes: lines 209-215
GetTimezoneResume ==
    /\ getPc = "got"
    /\ tzResult' = IF TruthyTZ(timezone) THEN timezone
                   ELSE IF TruthyTZ(envTZ) THEN envTZ
                   ELSE Guess
    /\ getPc' = "returned"
    /\ UNCHANGED <<serverTimezone, envTZ, dayjsDefault, tzPc, tzArg, tzCalls,
                   timezone, getAfter, tzFrame>>

\* ------------------------------------------------------- real-time lists
MaxEntities == 3
Users == {"u1", "u2"}
Kinds == {"monitorList", "maintenanceList"}
EntityIds == 1..MaxEntities

\* a row: its owner and the two ORDER BY columns, weight and name of a
\* monitor (end_date and title of a maintenance); name is the collation
\* rank of the string
BeanRows == [user_id : Users, weight : 1..2, name : 1..2]

Perms(S) ==
    {f \in [1..Cardinality(S) -> S] :
        \A i, j \in 1..Cardinality(S) : i # j => f[i] # f[j]}

\* ORDER BY weight DESC, name
OrderedBefore(a, b) ==
    a.weight > b.weight \/ (a.weight = b.weight /\ a.name <= b.name)

OwnedBy_AllUsers(u) == EntityIds

\* the rows the WHERE user_id = ? keeps
OwnedBy(u) == {id \in EntityIds : beans[id].user_id = u}

\* R.find("monitor", " user_id = ? ORDER BY weight DESC, name", [userID]):
\* every row sequence the ORDER BY allows (rows equal in both columns come
\* in any order)
FindByUser(u) ==
    {f \in Perms(OwnedBy(u)) :
        \A i, j \in 1..Len(f) : i < j => OrderedBefore(beans[f[i]], beans[f[j]])}

\* monitor.toJSON(): the public view of the row
toJSON(id) == [id |-> id, weight |-> beans[id].weight, name |-> beans[id].name]

\* the entries of the object built by result[bean.id] = ...: an object
\* enumerates its integer keys in ascending order, whatever the insertion
\* order was
ObjectEntries(keys) ==
    LET asc == CHOOSE f \in Perms(keys) :
                   \A i, j \in 1..Len(f) : i < j => f[i] < f[j]
    IN  [i \in 1..Cardinality(keys) |-> toJSON(asc[i])]

InitSendIdle ==
    /\ sendPc = Idle
    /\ sendErr = None
    /\ sendRows = <<>>
    /\ sendIdx = 0
    /\ result = {}
    /\ emitted = <<>>
    /\ returned = <<>>

InitListIdle ==
    /\ beans = [id \in EntityIds |-> [user_id |-> "u1", weight |-> 1, name |-> 1]]
    /\ sendKind = "monitorList"
    /\ sendUser = "u1"
    /\ InitSendIdle

InitList ==
    /\ beans \in [EntityIds -> BeanRows]
    /\ sendKind \in Kinds
    /\ sendUser \in Users
    /\ InitSendIdle

listFrame == <<beans, sendKind, sendUser, coordVars, instVars, ipVars, tzVars, history>>

\* sendMonitorList(socket) or sendMaintenanceList(socket) is called: it runs
\* up to the await of R.find in get...JSONList (lines 102, 115-117)
SendList ==
    /\ sendPc = Idle
    /\ sendPc' = "find"
    /\ UNCHANGED <<sendErr, sendRows, sendIdx, result, emitted, returned, listFrame>>

\* an awaited call rejects: get...JSONList rejects and so does send...List
RejectSend(step) ==
    /\ sendPc' = "rejected"
    /\ sendErr' = step
    /\ UNCHANGED <<sendRows, sendIdx, result, emitted, returned>>

\* line 117 resumes with the rows; the loop starts, or the list is returned
ListFind ==
    /\ sendPc = "find"
    /\ \/ \E rows \in FindByUser(sendUser) :
            /\ sendRows' = rows
            /\ sendIdx' = IF rows = <<>> THEN 0 ELSE 1
            /\ sendPc' = IF rows = <<>> THEN "emit" ELSE "json"
            /\ UNCHANGED <<sendErr, result, emitted, returned>>
       \/ RejectSend("find")
    /\ UNCHANGED listFrame

\* line 122 resumes with the view of one row: the key is set, next row
ToJSON ==
    /\ sendPc = "json"
    /\ \/ /\ result' = result \cup {sendRows[sendIdx]}
          /\ IF sendIdx < Len(sendRows)
             THEN sendIdx' = sendIdx + 1 /\ sendPc' = "json"
             ELSE sendIdx' = sendIdx /\ sendPc' = "emit"
          /\ UNCHANGED <<sendErr, sendRows, emitted, returned>>
       \/ RejectSend("json")
    /\ UNCHANGED listFrame

\* line 102 resumes with the list: lines 103-104
Emit ==
    /\ sendPc = "emit"
    /\ emitted' = Append(emitted, [channel |-> sendUser, event |-> sendKind,
                                   payload |-> ObjectEntries(result)])
    /\ returned' = ObjectEntries(result)
    /\ sendPc' = "returned"
    /\ UNCHANGED <<sendErr, sendRows, sendIdx, result, listFrame>>

\* ------------------------------------------------------------ getInstance
MaxGetCalls == 3
Null == [serial |-> 0]
KeyFiles == {Undefined, "key.pem", "unreadable.pem"}
Args == [sslKey : KeyFiles, sslCert : KeyFiles]

\* lines 58-87: "ok", or "throw" (fs.readFileSync of the key or certificate
\* fails), or "exit" (dist/index.html missing outside development)
Constructor(args) ==
    IF /\ args.sslKey # Undefined
       /\ args.sslCert # Undefined
       /\ "unreadable.pem" \in {args.sslKey, args.sslCert}
    THEN "throw"
    ELSE IF ~procEnv.distIndex /\ ~procEnv.development THEN "exit"
    ELSE "ok"

NewServer(args) ==
    [serverType |-> IF args.sslKey # Undefined /\ args.sslCert # Undefined
                    THEN "HTTPS" ELSE "HTTP",
     args |-> args, serial |-> constructed + 1]

InitInstance ==
    /\ instance = Null
    /\ constructed = 0
    /\ getLog = <<>>
    /\ procEnv \in [distIndex : BOOLEAN, development : BOOLEAN, exited : {FALSE}]

\* the coordinator's methods run on the constructed instance
InitConstructed ==
    /\ instance = [serverType |-> "HTTP", serial |-> 1,
                   args |-> [sslKey |-> Undefined, sslCert |-> Undefined]]
    /\ constructed = 1
    /\ getLog = <<>>
    /\ procEnv = [distIndex |-> TRUE, development |-> FALSE, exited |-> FALSE]

\* variant: no check of the static field, every call constructs
GetInstance_AlwaysNew(args) ==
    /\ ~procEnv.exited
    /\ Len(getLog) < MaxGetCalls
    /\ Constructor(args) = "ok"
    /\ instance' = NewServer(args)
    /\ constructed' = constructed + 1
    /\ getLog' = Append(getLog, [args |-> args, outcome |-> "returned", ret |-> NewServer(args)])
    /\ UNCHANGED <<procEnv, coordVars, ipVars, tzVars, listVars, history>>

\* lines 51-56
GetInstance(args) ==
    /\ ~procEnv.exited
    /\ Len(getLog) < MaxGetCalls
    /\ IF instance = Null
       THEN \/ /\ Constructor(args) = "ok"
               /\ instance' = NewServer(args)
               /\ constructed' = constructed + 1
               /\ getLog' = Append(getLog, [args |-> args, outcome |-> "returned", ret |-> NewServer(args)])
               /\ UNCHANGED procEnv
            \/ /\ Constructor(args) = "throw"
               /\ getLog' = Append(getLog, [args |-> args, outcome |-> "threw", ret |-> Null])
               /\ UNCHANGED <<instance, constructed, procEnv>>
            \/ /\ Constructor(args) = "exit"
               /\ procEnv' = [procEnv EXCEPT !.exited = TRUE]
               /\ UNCHANGED <<instance, constructed, getLog>>
       ELSE /\ getLog' = Append(getLog, [args |-> args, outcome |-> "returned", ret |-> instance])
            /\ UNCHANGED <<instance, constructed, procEnv>>
    /\ UNCHANGED <<coordVars, ipVars, tzVars, listVars, history>>

\* ------------------------------------------------------------------- Init
InitServer ==
    /\ now = 0
    /\ timeslots = <<Row(1, 0), Row(2, 0)>>
    /\ rolled = {}
    /\ pc = [p \in Passes |-> "idle"]
    /\ list = [p \in Passes |-> <<>>]
    /\ idx = [p \in Passes |-> 0]
    /\ born = {}
    /\ initPc = "notStarted"
    /\ initErr = "none"
    /\ dnsFresh = FALSE
    /\ generateMaintenanceTimeslotsInterval = Undefined
    /\ timers = {}
    /\ stopCalls = 0
    /\ stoppedAfterInit = FALSE
    /\ stopSeen = FALSE
    /\ stopDuringInit = FALSE

InitScheduler == InitServer /\ faults = 0

InitCoordinator == InitScheduler /\ envTZ = Undefined

Init == InitCoordinator /\ InitConstructed /\ InitIPIdle /\ InitTZIdle /\ InitListIdle /\ history = FALSE

\* ------------------------------------------- generateMaintenanceTimeslots
\* the call itself: runs up to the await of R.find
StartPass(p) ==
    /\ pc' = [pc EXCEPT ![p] = "find"]
    /\ UNCHANGED <<timeslots, rolled, list, idx, born>>

\* an awaited call rejects: nothing catches it, the pass's promise rejects
FailPass(p) ==
    /\ faults < MaxFaults
    /\ faults' = faults + 1
    /\ pc' = [pc EXCEPT ![p] = "failed"]
    /\ UNCHANGED <<timeslots, rolled, list, idx, born>>

\* line 230 resumes with the snapshot; the loop starts or the pass returns
Find(p) ==
    /\ pc[p] = "find"
    /\ \/ /\ list' = [list EXCEPT ![p] = FindDue]
          /\ idx' = [idx EXCEPT ![p] = IF FindDue = <<>> THEN 0 ELSE 1]
          /\ pc' = [pc EXCEPT ![p] = IF FindDue = <<>> THEN "done" ELSE "load"]
          /\ UNCHANGED <<timeslots, rolled, born, faults>>
       \/ FailPass(p)
    /\ UNCHANGED <<now, initVars, timerVars, stopVars, instVars, ipVars, tzVars, listVars, history>>

\* variant: the flag is stored before the roll-forward
LoadMaintenance_FlagFirst(p) ==
    /\ pc[p] = "load"
    /\ \/ /\ timeslots' = [timeslots EXCEPT ![list[p][idx[p]]].generated_next = TRUE]
          /\ pc' = [pc EXCEPT ![p] = "gen"]
          /\ UNCHANGED <<rolled, list, idx, born, faults>>
       \/ FailPass(p)
    /\ UNCHANGED <<now, initVars, timerVars, stopVars, instVars, ipVars, tzVars, listVars, history>>

\* line 233 resumes with the owning maintenance; generateTimeslot is called
LoadMaintenance(p) ==
    /\ pc[p] = "load"
    /\ \/ /\ pc' = [pc EXCEPT ![p] = "gen"]
          /\ UNCHANGED <<timeslots, rolled, list, idx, born, faults>>
       \/ FailPass(p)
    /\ UNCHANGED <<now, initVars, timerVars, stopVars, instVars, ipVars, tzVars, listVars, history>>

\* the passes inside their for-of loop, iterating their snapshot
Iterating == {q \in Passes : pc[q] \in {"load", "gen", "store"}}

\* the rows of table t that are not in the table yet and match the query
NewDue(t) == {j \in (1..Len(t)) \ Ids : IsDue(t[j])}

\* line 234 resumes; line 235 sets the flag on the bean, line 236 calls R.store
GenerateTimeslot(p) ==
    /\ pc[p] = "gen"
    /\ \/ /\ timeslots' = generateTimeslot(list[p][idx[p]])
          /\ rolled' = rolled \cup {<<p, list[p][idx[p]]>>}
          /\ born' = IF history
                     THEN born \cup (Iterating \X NewDue(generateTimeslot(list[p][idx[p]])))
                     ELSE born
          /\ pc' = [pc EXCEPT ![p] = "store"]
          /\ UNCHANGED <<list, idx, faults>>
       \/ FailPass(p)
    /\ UNCHANGED <<now, initVars, timerVars, stopVars, instVars, ipVars, tzVars, listVars, history>>

\* variant: the row is stored without the flag
Store_NoFlag(p) ==
    /\ pc[p] = "store"
    /\ \/ /\ IF idx[p] < Len(list[p])
             THEN /\ idx' = [idx EXCEPT ![p] = idx[p] + 1]
                  /\ pc' = [pc EXCEPT ![p] = "load"]
             ELSE /\ idx' = idx
                  /\ pc' = [pc EXCEPT ![p] = "done"]
          /\ UNCHANGED <<timeslots, rolled, list, born, faults>>
       \/ FailPass(p)
    /\ UNCHANGED <<now, initVars, timerVars, stopVars, instVars, ipVars, tzVars, listVars, history>>

\* line 236 resumes: the row is stored with generated_next = true; next record
Store(p) ==
    /\ pc[p] = "store"
    /\ \/ /\ timeslots' = [timeslots EXCEPT ![list[p][idx[p]]].generated_next = TRUE]
          /\ IF idx[p] < Len(list[p])
             THEN /\ idx' = [idx EXCEPT ![p] = idx[p] + 1]
                  /\ pc' = [pc EXCEPT ![p] = "load"]
             ELSE /\ idx' = idx
                  /\ pc' = [pc EXCEPT ![p] = "done"]
          /\ UNCHANGED <<rolled, list, born, faults>>
       \/ FailPass(p)
    /\ UNCHANGED <<now, initVars, timerVars, stopVars, instVars, ipVars, tzVars, listVars, history>>

\* the interval timer fires: setInterval's callback starts another pass
TimerFire(p) ==
    /\ p # 0
    /\ Handle \in timers
    /\ pc[p] = "idle"
    /\ \A q \in 1..(p - 1) : pc[q] # "idle"
    /\ StartPass(p)
    /\ UNCHANGED <<now, initVars, timerVars, faults, stopVars, instVars, ipVars, tzVars, listVars, history>>

\* a timer pass that returned is over: its slot serves a later firing (the
\* interval fires without end, MaxTimerPasses bounds the passes in flight)
Release(p) ==
    /\ p # 0
    /\ pc[p] = "done"
    /\ pc' = [pc EXCEPT ![p] = "idle"]
    /\ list' = [list EXCEPT ![p] = <<>>]
    /\ idx' = [idx EXCEPT ![p] = 0]
    /\ rolled' = {r \in rolled : r[1] # p}
    /\ UNCHANGED <<now, timeslots, born, initVars, timerVars, faults, stopVars,
                   instVars, ipVars, tzVars, listVars, history>>

\* ------------------------------------------------- initAfterDatabaseReady
RejectInit(step) ==
    /\ faults < MaxFaults
    /\ faults' = faults + 1
    /\ initPc' = "rejected"
    /\ initErr' = step
    /\ UNCHANGED <<dnsFresh, envTZ, schedVars, timerVars>>

\* the call: runs up to the await of CacheableDnsHttpAgent.update()
InitCall ==
    /\ initPc = "notStarted"
    /\ initPc' = "dns"
    /\ UNCHANGED <<now, schedVars, initErr, dnsFresh, envTZ, timerVars, faults, stopVars, instVars, ipVars, tzVars, listVars, history>>

\* line 90 resumes; getTimezone() is called
InitDns ==
    /\ initPc = "dns"
    /\ \/ /\ dnsFresh' = TRUE
          /\ initPc' = "tz"
          /\ UNCHANGED <<initErr, envTZ, schedVars, timerVars, faults>>
       \/ RejectInit("dns")
    /\ UNCHANGED <<now, stopVars, instVars, ipVars, tzVars, listVars, history>>

\* line 92 resumes: TZ applied (92-95), generateMaintenanceTimeslots called
InitTimezone ==
    /\ initPc = "tz"
    /\ \/ /\ envTZ' = "tz"
          /\ dayjsDefault' = "tz"
          /\ initPc' = "pass"
          /\ StartPass(0)
          /\ UNCHANGED <<initErr, dnsFresh, timerVars, faults>>
       \/ /\ RejectInit("tz")
          /\ UNCHANGED dayjsDefault
    /\ UNCHANGED <<now, stopVars, instVars, ipVars, tzTaskVars, listVars, history>>

\* variant: the initial pass is not awaited before the timer is armed
InitArm_NoAwait ==
    /\ initPc = "pass"
    /\ generateMaintenanceTimeslotsInterval' = Handle
    /\ timers' = timers \cup {Handle}
    /\ initPc' = "done"
    /\ initErr' = initErr
    /\ UNCHANGED <<now, schedVars, dnsFresh, envTZ, faults, stopVars, instVars, ipVars, tzVars, listVars, history>>

\* line 97 resumes: the initial pass returned, line 98 arms the timer;
\* or the initial pass rejected and so does initAfterDatabaseReady
InitArm ==
    /\ initPc = "pass"
    /\ \/ /\ pc[0] = "done"
          /\ generateMaintenanceTimeslotsInterval' = Handle
          /\ timers' = timers \cup {Handle}
          /\ initPc' = "done"
          /\ initErr' = initErr
       \/ /\ pc[0] = "failed"
          /\ initPc' = "rejected"
          /\ initErr' = "pass"
          /\ UNCHANGED timerVars
    /\ UNCHANGED <<now, schedVars, dnsFresh, envTZ, faults, stopVars, instVars, ipVars, tzVars, listVars, history>>

\* ------------------------------------------------------------------- stop
\* clearTimeout(this.generateMaintenanceTimeslotsInterval)
clearTimeout_Noop(h) == timers

clearTimeout(h) == timers \ {h}

InFlight(p) == pc[p] \in {"find", "load", "gen", "store"}

\* variant: stop() also abandons the passes in flight
Stop_AbortPasses ==
    /\ stopCalls < MaxStops
    /\ stopCalls' = stopCalls + 1
    /\ timers' = clearTimeout(generateMaintenanceTimeslotsInterval)
    /\ stoppedAfterInit' = (stoppedAfterInit \/ initPc = "done")
    /\ stopSeen' = (stopSeen \/ \E p \in Passes : InFlight(p))
    /\ stopDuringInit' = (stopDuringInit \/ (history /\ initPc \in {"dns", "tz", "pass"}))
    /\ pc' = [p \in Passes |-> IF InFlight(p) THEN "dead" ELSE pc[p]]
    /\ UNCHANGED <<now, timeslots, rolled, list, idx, born, initVars,
                   generateMaintenanceTimeslotsInterval, faults, instVars, ipVars, tzVars, listVars, history>>

Stop ==
    /\ stopCalls < MaxStops
    /\ stopCalls' = stopCalls + 1
    /\ timers' = clearTimeout(generateMaintenanceTimeslotsInterval)
    /\ stoppedAfterInit' = (stoppedAfterInit \/ initPc = "done")
    /\ stopSeen' = (stopSeen \/ \E p \in Passes : InFlight(p))
    /\ stopDuringInit' = (stopDuringInit \/ (history /\ initPc \in {"dns", "tz", "pass"}))
    /\ UNCHANGED <<now, schedVars, initVars, generateMaintenanceTimeslotsInterval, faults, instVars, ipVars, tzVars, listVars, history>>

\* ------------------------------------------------------------ environment
Tick ==
    /\ now < MaxNow
    /\ now' = now + 1
    /\ UNCHANGED <<schedVars, initVars, timerVars, faults, stopVars, instVars, ipVars, tzVars, listVars, history>>

\* the process dies: every suspended task is gone, the database stays
Crash ==
    /\ initPc \notin {"notStarted", "dead"}
    /\ pc' = [p \in Passes |-> IF InFlight(p) THEN "dead" ELSE pc[p]]
    /\ initPc' = "dead"
    /\ timers' = {}
    /\ UNCHANGED <<now, timeslots, rolled, list, idx, born, initErr, dnsFresh, envTZ,
                   generateMaintenanceTimeslotsInterval, faults, stopVars, instVars, ipVars, tzVars, listVars, history>>

Next ==
    \/ InitCall
    \/ InitDns
    \/ InitTimezone
    \/ InitArm
    \/ \E p \in Passes : Find(p)
    \/ \E p \in Passes : LoadMaintenance(p)
    \/ \E p \in Passes : GenerateTimeslot(p)
    \/ \E p \in Passes : Store(p)
    \/ \E p \in Passes : TimerFire(p)
    \/ Stop
    \/ Tick
    \/ Crash

Spec == Init /\ [][Next]_vars

\* the recurring timer without stop(), crash or failing calls: every I/O
\* call succeeds (the fault budget is spent from the start), the timer fires
\* again and again, and every enabled step is eventually taken
InitNoFaults ==
    /\ InitServer /\ envTZ = Undefined /\ faults = MaxFaults
    /\ InitConstructed /\ InitIPIdle /\ InitTZIdle /\ InitListIdle /\ history = FALSE

NextLive ==
    \/ InitCall
    \/ InitDns
    \/ InitTimezone
    \/ InitArm
    \/ \E p \in Passes : Find(p)
    \/ \E p \in Passes : LoadMaintenance(p)
    \/ \E p \in Passes : GenerateTimeslot(p)
    \/ \E p \in Passes : Store(p)
    \/ \E p \in Passes : TimerFire(p)
    \/ \E p \in Passes : Release(p)
    \/ Tick

\* a pass is sequential, at most one of its steps is enabled at a time:
\* fairness of its next step is fairness of each of its steps
PassStepLive(p) ==
    Find(p) \/ LoadMaintenance(p) \/ GenerateTimeslot(p) \/ Store(p) \/ Release(p)

FairLive ==
    /\ WF_vars(\E p \in Passes : TimerFire(p))
    /\ \A p \in Passes : WF_vars(PassStepLive(p))

SpecLive == InitNoFaults /\ [][NextLive]_vars /\ FairLive

\* the same program with the history of insertions and of stop() recorded
InitRecorded ==
    InitCoordinator /\ InitConstructed /\ InitIPIdle /\ InitTZIdle /\ InitListIdle /\ history = TRUE
SpecRecorded == InitRecorded /\ [][Next]_vars

\* getInstance alone, from class load
NextInstance == \E args \in Args : GetInstance(args)
InitClassLoaded == InitCoordinator /\ InitInstance /\ InitIPIdle /\ InitTZIdle /\ InitListIdle /\ history = FALSE
SpecInstance == InitClassLoaded /\ [][NextInstance]_vars

\* setTimezone and getTimezone, from every stored setting and environment
NextTZ ==
    \/ \E tz \in Zones : SetTimezoneCall(tz)
    \/ SettingsSet
    \/ SetTimezoneResume
    \/ GetTimezoneCall
    \/ SettingsGet
    \/ GetTimezoneResume
InitSettings == InitScheduler /\ InitConstructed /\ InitIPIdle /\ InitTZ /\ InitListIdle /\ history = FALSE
SpecTZ == InitSettings /\ [][NextTZ]_vars

\* one send...List call, over every table and user
NextList == SendList \/ ListFind \/ ToJSON \/ Emit
InitBroadcast == InitCoordinator /\ InitConstructed /\ InitIPIdle /\ InitTZIdle /\ InitList /\ history = FALSE
SpecList == InitBroadcast /\ [][NextList]_vars

\* getClientIP alone, over every connection and setting
NextIP == GetClientIP
InitConnection == InitCoordinator /\ InitConstructed /\ InitIP /\ InitTZIdle /\ InitListIdle /\ history = FALSE
SpecIP == InitConnection /\ [][NextIP]_vars

TypeOK ==
    /\ now \in 0..MaxNow
    /\ \A p \in Passes : pc[p] \in {"idle", "find", "load", "gen", "store", "done", "failed", "dead"}
    /\ faults \in 0..MaxFaults

\* ================================================================ claims
ListSet(p) == {list[p][k] : k \in 1..Len(list[p])}
RolledBy(id) == {p \in Passes : <<p, id>> \in rolled}
Processed(p, id) == <<p, id>> \in rolled /\ timeslots[id].generated_next

\* C1: a pass that returns has flagged every slot it selected (unflagged and
\* due at its query) and each has exactly one successor; a query made once
\* the flag is stored selects exactly the unflagged due slots, so a flagged
\* slot is not selected again, is rolled forward only by passes that
\* selected it, and never has a second successor.
C1_PassDone ==
    \A p \in Passes : pc[p] = "done" =>
        \A id \in ListSet(p) :
            timeslots[id].generated_next /\ Cardinality(Successors(id)) = 1

C1_QueryStep ==
    \A p \in Passes :
        (pc[p] = "find" /\ pc'[p] \in {"load", "done"}) =>
            {list'[p][k] : k \in 1..Len(list'[p])} =
                {id \in Ids : ~timeslots[id].generated_next
                              /\ timeslots[id].start_date <= now}

C1_Idempotent ==
    /\ [](C1_PassDone /\ \A id \in Ids :
            /\ Cardinality(Successors(id)) <= 1
            /\ \A p \in RolledBy(id) : id \in ListSet(p))
    /\ [][C1_QueryStep]_vars

\* the initial pass flagged a slot and a later timer pass, started after
\* it, ran its query and did not select that slot
C1_Witness ==
    /\ pc[0] = "done" /\ Len(list[0]) >= 1
    /\ pc[1] = "done" /\ Len(list[1]) >= 1
    /\ list[0][1] \notin ListSet(1)

\* C2: in every reachable state (failed and crashed passes included) a row
\* whose stored generated_next is true was rolled forward before, and its
\* successor row exists.
C2_FlagOnlyAfterSuccessor ==
    \A id \in Ids : timeslots[id].generated_next =>
        RolledBy(id) # {} /\ Successors(id) # {}

\* a pass died in the middle of a record after another record was flagged
C2_Witness ==
    \E p \in Passes :
        /\ pc[p] \in {"dead", "failed"} /\ idx[p] >= 1
        /\ <<p, list[p][idx[p]]>> \in rolled
        /\ ~timeslots[list[p][idx[p]]].generated_next
        /\ \E id \in Ids : timeslots[id].generated_next

\* C3 (as claimed): an error in one matched record leaves every other record
\* of the same pass rolled forward and flagged by that pass.
C3_SiblingsSurvive ==
    \A p \in Passes : (pc[p] = "failed" /\ idx[p] >= 1) =>
        \A k \in 1..Len(list[p]) : k # idx[p] => Processed(p, list[p][k])

\* C4 (as claimed): with overlapping passes and no I/O failure, no slot has
\* its roll-forward invoked by more than one pass.
C4_OneRollPerSlot ==
    faults = 0 => \A id \in Ids : Cardinality(RolledBy(id)) <= 1

\* C6: the effects of initAfterDatabaseReady happen in order: DNS refresh,
\* then the timezone, then the initial pass, and the timer is armed (and a
\* timer pass can start) only when the initial pass has returned.
C6_InitOrder ==
    /\ envTZ # Undefined => dnsFresh
    /\ pc[0] # "idle" => envTZ # Undefined
    /\ generateMaintenanceTimeslotsInterval # Undefined => pc[0] = "done"
    /\ timers # {} => pc[0] = "done"
    /\ \A p \in Passes \ {0} : pc[p] # "idle" => pc[0] = "done"
    /\ initPc = "done" => generateMaintenanceTimeslotsInterval = Handle

\* a timer pass has started after an initial pass that processed a record
C6_Witness == pc[1] # "idle" /\ Len(list[0]) >= 1

\* C7 (as claimed): when initAfterDatabaseReady ended on a failure of the
\* DNS refresh or of the timezone resolution, the initial pass has run and
\* the timer is armed.
C7_InitSurvivesFailure ==
    (initPc = "rejected" /\ initErr \in {"dns", "tz"}) =>
        (pc[0] # "idle" /\ generateMaintenanceTimeslotsInterval # Undefined)

\* C8: stop() may run any number of times, armed or not; once a stop() has
\* run after initAfterDatabaseReady returned no timer is armed and no timer
\* pass starts any more.
C8_StopIdempotent ==
    /\ [](stoppedAfterInit => timers = {})
    /\ [][stoppedAfterInit =>
            \A p \in Passes \ {0} : pc[p] = "idle" => pc'[p] = "idle"]_vars

\* stop() ran twice, the last time after the timer was armed, and no timer
\* pass had started
C8_Witness ==
    /\ stopCalls = 2 /\ stoppedAfterInit
    /\ generateMaintenanceTimeslotsInterval = Handle
    /\ pc[1] = "idle"

\* C9: a stop() step changes nothing of any pass; after a stop() every pass
\* in flight can still take its next step, and a pass that has returned has
\* rolled forward and flagged every record of its snapshot.
PassStep(p) == Find(p) \/ LoadMaintenance(p) \/ GenerateTimeslot(p) \/ Store(p)

C9_StopKeepsPasses ==
    /\ [][stopCalls' # stopCalls => UNCHANGED schedVars]_vars
    /\ [](stopCalls > 0 => \A p \in Passes :
            /\ InFlight(p) => ENABLED PassStep(p)
            /\ pc[p] = "done" => \A id \in ListSet(p) : Processed(p, id))

\* stop() ran while a pass was in flight, and every pass started so far
\* (that one included) has returned, one of them with two records
C9_Witness ==
    /\ stopSeen /\ stoppedAfterInit /\ timers = {}
    /\ \A p \in Passes : pc[p] \in {"idle", "done"}
    /\ \E p \in Passes \ {0} : pc[p] = "done" /\ Len(list[p]) >= 2

\* C5: the constructor completes at most once; every getInstance call that
\* returns, returns the one instance, whose configuration is the argument
\* of the call that constructed it; the static field never changes again.
C5_Singleton ==
    /\ [](/\ constructed <= 1
          /\ \A k \in 1..Len(getLog) : getLog[k].outcome = "returned" =>
                /\ getLog[k].ret = instance
                /\ instance # Null
                /\ \E j \in 1..k : getLog[j].args = instance.args
                /\ \A j \in 1..(k - 1) :
                      getLog[j].outcome = "returned" => getLog[j].ret = getLog[k].ret)
    /\ [][instance # Null => instance' = instance]_vars

\* two calls with different arguments have both returned
C5_Witness ==
    \E j, k \in 1..Len(getLog) :
        /\ j < k
        /\ getLog[j].outcome = "returned" /\ getLog[k].outcome = "returned"
        /\ getLog[j].args # getLog[k].args
        /\ getLog[j].args = instance.args

\* C10: with trustProxy false the result is the same as for the connection
\* without x-forwarded-for and x-real-ip, and it is the baseline
\* (cf-connecting-ip if set, else the remote address, else "") cut after
\* its last colon.
Baseline(c) ==
    IF c.cfConnectingIp # Absent /\ Len(c.cfConnectingIp) > 0 THEN c.cfConnectingIp
    ELSE IF c.remoteAddress # Absent THEN c.remoteAddress
    ELSE <<>>

AfterLastColon(s) ==
    LET n == Len(s)
        k == CHOOSE k \in 0..n :
                /\ \A i \in (n - k + 1)..n : s[i] # ":"
                /\ (k = n \/ s[n - k] = ":")
    IN  [i \in 1..k |-> s[n - k + i]]

C10_UntrustedIgnoresForwarding ==
    (clientIP # Absent /\ ~trustProxy) =>
        /\ clientIP = clientIPNoFwd
        /\ clientIP = AfterLastColon(Baseline(conn))

\* trustProxy is false, both forwarding headers are set, and the baseline
\* has something to strip
C10_Witness ==
    /\ clientIP # Absent /\ ~trustProxy
    /\ Truthy(conn.xForwardedFor) /\ Truthy(conn.xRealIp)
    /\ conn.xForwardedFor # conn.cfConnectingIp
    /\ Positions(Baseline(conn), ":") # {}
    /\ Len(clientIP) > 0

\* the first comma-separated entry of s without its surrounding spaces
TrimmedFirst(s) ==
    LET commas == {i \in 1..Len(s) : s[i] = ","}
        cut == IF commas = {} THEN Len(s)
               ELSE (CHOOSE i \in commas : \A j \in commas : i <= j) - 1
        lead == CHOOSE a \in 0..cut :
                    /\ \A i \in 1..a : s[i] = " "
                    /\ (a = cut \/ s[a + 1] # " ")
        trail == CHOOSE b \in 0..(cut - lead) :
                    /\ \A i \in (cut - b + 1)..cut : s[i] = " "
                    /\ (b = cut - lead \/ s[cut - b] # " ")
    IN  [i \in 1..(cut - lead - trail) |-> s[lead + i]]

Present(h) == h # Absent /\ Len(h) > 0

\* C11 (as claimed): with trustProxy true the result is the trimmed first
\* entry of x-forwarded-for whenever that header is present, else x-real-ip
\* when present, else the stripped baseline.
C11_PriorityWhenPresent ==
    (clientIP # Absent /\ trustProxy) =>
        clientIP = IF Present(conn.xForwardedFor) THEN TrimmedFirst(conn.xForwardedFor)
                   ELSE IF Present(conn.xRealIp) THEN conn.xRealIp
                   ELSE AfterLastColon(Baseline(conn))

\* C11 (amended): with trustProxy true the result is the trimmed first entry
\* of x-forwarded-for when the header is present and that entry is not
\* empty, else x-real-ip when present and not empty, else the stripped
\* baseline.
C11_PriorityWhenNonEmpty ==
    (clientIP # Absent /\ trustProxy) =>
        clientIP = IF Present(conn.xForwardedFor)
                      /\ Len(TrimmedFirst(conn.xForwardedFor)) > 0
                   THEN TrimmedFirst(conn.xForwardedFor)
                   ELSE IF Present(conn.xRealIp) THEN conn.xRealIp
                   ELSE AfterLastColon(Baseline(conn))

\* trustProxy is true, x-forwarded-for is a list whose first entry is padded,
\* and x-real-ip and the baseline would give something else
C11_Witness ==
    /\ clientIP # Absent /\ trustProxy
    /\ Positions(conn.xForwardedFor, ",") # {}
    /\ Positions(conn.xForwardedFor, " ") # {}
    /\ clientIP = <<"1">>
    /\ Present(conn.xRealIp) /\ conn.xRealIp # clientIP
    /\ AfterLastColon(Baseline(conn)) # clientIP

\* C12 (as claimed): whatever the source of the value and whatever trustProxy
\* is, the returned string contains no colon.
C12_NoColon ==
    clientIP # Absent => Positions(clientIP, ":") = {}

\* C13: when setTimezone(tz) has returned for a non-empty tz, the stored
\* setting, process.env.TZ and the dayjs default zone all equal tz, and a
\* getTimezone() call that follows it returns tz, whatever the setting and
\* the environment were before.
C13_SetThenGet ==
    /\ (tzPc = "returned" /\ tzArg # "") =>
          (serverTimezone = tzArg /\ envTZ = tzArg /\ dayjsDefault = tzArg)
    /\ (getPc = "returned" /\ getAfter \notin {None, ""}) => tzResult = getAfter

\* a second setTimezone replaced another zone, and the getTimezone call that
\* followed it has returned
C13_Witness ==
    /\ tzCalls = 2 /\ tzPc = "returned" /\ tzArg = "Europe/London"
    /\ getPc = "returned" /\ getAfter = "Europe/London"
    /\ tzResult = "Europe/London"

\* the stored setting (when there is one), the environment variable and the
\* dayjs default zone name the same zone
AgreeTZ ==
    /\ envTZ = dayjsDefault
    /\ TruthyTZ(serverTimezone) => serverTimezone = envTZ

\* C14 (as claimed): setTimezone is atomic for every other task: from a
\* state where the three agree, no step leads to a state where they do not.
C14_Atomic == [][AgreeTZ => AgreeTZ']_vars

\* C15 (as claimed): the mapping returned (and emitted) presents the user's
\* rows ordered by weight descending, then name ascending.
C15_PayloadOrdered ==
    sendPc = "returned" =>
        \A i, j \in 1..Len(returned) :
            i < j => OrderedBefore(returned[i], returned[j])

\* C16: a call emits at most once and only when it returns; what it emits
\* goes to the channel of the call's own user under the call's event, holds
\* exactly the rows owned by that user, and is what the call returns; no
\* other channel receives anything.
C16_OwnChannelOnly ==
    /\ Len(emitted) <= 1
    /\ Len(emitted) = 1 <=> sendPc = "returned"
    /\ \A k \in 1..Len(emitted) :
          /\ emitted[k].channel = sendUser
          /\ emitted[k].event = sendKind
          /\ emitted[k].payload = returned
          /\ {emitted[k].payload[i].id : i \in 1..Len(emitted[k].payload)}
                = {id \in EntityIds : beans[id].user_id = sendUser}

\* a call returned two rows of its user while the other user owns a row
C16_Witness ==
    /\ sendPc = "returned" /\ Len(returned) = 2
    /\ \E id \in EntityIds : beans[id].user_id # sendUser

\* C17 (as claimed): when serializing one row fails, the call does not throw
\* and the mapping of the user's remaining rows is emitted.
C17_SerializationIsolated ==
    sendErr = "json" =>
        /\ sendPc # "rejected"
        /\ sendPc = "returned" =>
              /\ Len(emitted) = 1
              /\ {returned[i].id : i \in 1..Len(returned)}
                    = OwnedBy(sendUser) \ {sendRows[sendIdx]}

\* C18 (as claimed): a pass that returns has rolled forward and flagged
\* every row that was inserted, unflagged and already due, while the pass
\* was iterating (a successor the pass itself created included).
C18_NoSkipAfterSnapshot ==
    \A p \in Passes :
        pc[p] = "done" => \A id \in Ids : <<p, id>> \in born => Processed(p, id)

\* C19 (as claimed): when stop() ran while initAfterDatabaseReady was
\* suspended at one of its awaits, then once initAfterDatabaseReady has
\* returned no timer is armed and no timer pass has started.
C19_StopNotUndone ==
    (stopDuringInit /\ initPc = "done") =>
        /\ timers = {}
        /\ \A p \in Passes \ {0} : pc[p] = "idle"

\* the start of the slot has passed
Started(id) == timeslots[id].start_date <= now

\* C20: once initAfterDatabaseReady has returned, with no stop() and no
\* failing call, whenever some row is unflagged and due, eventually every
\* row whose start has passed by then (that row included) is flagged and has
\* its successor row, under weak fairness of the timer firings and of each
\* step of each pass.
C20_DueEventuallyRolled ==
    (initPc = "done" /\ \E id \in Ids : IsDue(timeslots[id]))
        ~> (\A id \in Ids :
                Started(id) => timeslots[id].generated_next /\ Successors(id) # {})

\* a row created after start-up became due and was rolled forward and
\* flagged by a timer pass
C20_Witness ==
    /\ initPc = "done"
    /\ \E id \in Ids, p \in Passes \ {0} :
          /\ id > 2
          /\ Processed(p, id)
          /\ Successors(id) # {}

====
